---- MODULE Spec2Model ----
(***************************************************************************)
(* A model of pyipmi's SDR subsystem (src/src/pyipmi/sdr.py):              *)
(*   - Sdr.get_reservation_id, Sdr.get_sdr (the paginated record reader),  *)
(*     Sdr.sdr_entries (the repository enumerator);                        *)
(*   - create_sdr and the SdrCommon / Sdr* constructors (record decoder);  *)
(*   - SdrFullSensorRecord.convert_sensor_raw_to_value / _value_to_raw.    *)
(* The BMC behind send_message is the environment: every response it can   *)
(* give is a nondeterministic choice.  time.sleep changes no program state *)
(* and is left out of the actions.                                         *)
(***************************************************************************)
EXTENDS Integers, Sequences, FiniteSets, TLC

VARIABLES
    mode,             \* which entry point the caller runs: "get_sdr" | "sdr_entries"
    pc,               \* position of the program
    record_id,        \* get_sdr argument
    reservation_id,   \* get_sdr argument (None when not supplied)
    req,              \* the GetDeviceSdr request object
    rsp,              \* the last GetDeviceSdr response
    retry,            \* get_sdr local
    max_req_len,      \* self.max_req_len
    record_data,      \* get_sdr local: the accumulator
    record_length,    \* get_sdr local
    next_record_id,   \* get_sdr local
    result,           \* what the last get_sdr / create_sdr call returned or raised
    e_reservation_id, \* sdr_entries local reservation_id
    e_record_id,      \* sdr_entries local record_id
    yielded,          \* the records sdr_entries has yielded so far
    bmc_reservations, \* BMC: number of reservation ids issued (the last one issued)
    wire,             \* history: the last GetDeviceSdr request as it was sent
    attempts,         \* history: attempt-consuming responses of the body phase
    hdr_requests,     \* history: requests sent so far by the running header phase
    restarted,        \* history: the body transfer was restarted in this call
    cap8,             \* history: the body phase has so far been answered as by a
                      \* transport that accepts exactly the reads of at most 8 bytes
    raw,              \* argument of the last convert_sensor_raw_to_value (or None)
    value,            \* what convert_sensor_raw_to_value returned, or the caller's value
    back              \* what convert_sensor_value_to_raw returned or raised

vars == << mode, pc, record_id, reservation_id, req, rsp, retry, max_req_len,
           record_data, record_length, next_record_id, result,
           e_reservation_id, e_record_id, yielded, bmc_reservations,
           wire, attempts, hdr_requests, restarted, cap8, raw, value,
           back >>

(***************************************************************************)
(* Program constants                                                       *)
(***************************************************************************)
SDR_TYPE_FULL_SENSOR_RECORD == 1
SDR_TYPE_COMPACT_SENSOR_RECORD == 2
SDR_TYPE_EVENT_ONLY_SENSOR_RECORD == 3
SDR_TYPE_ENTITY_ASSOCIATION_RECORD == 8
SDR_TYPE_FRU_DEVICE_LOCATOR_RECORD == 17
SDR_TYPE_MANAGEMENT_CONTROLLER_DEVICE_LOCATOR_RECORD == 18
SDR_TYPE_MANAGEMENT_CONTROLLER_CONFIRMATION_RECORD == 19
SDR_TYPE_BMC_MESSAGE_CHANNEL_INFO_RECORD == 20

\* pyipmi.msgs.constants (IPMI v2.0 completion codes C5h, CEh, CAh)
CC_OK == 0
CC_RES_CANCELED == 197
CC_RESP_COULD_NOT_BE_PRV == 206
CC_CANT_RET_NUM_REQ_BYTES == 202
\* the literal 0xce of the body loop
BODY_CC_COULD_NOT_BE_PRV == 206

HEADER_LENGTH == 5          \* req.length = 5; record_length += 5
HEADER_RETRY == 5           \* retry = 5
BODY_RETRY == 20            \* retry = 20
INITIAL_MAX_REQ_LEN == 20   \* self.max_req_len = 20
REQ_LEN_STEP == 4           \* self.max_req_len -= 4
LAST_RECORD_ID == 65535     \* 0xffff
None == -1                  \* Python's None (an id is never negative)

(***************************************************************************)
(* Bounds of the model                                                     *)
(***************************************************************************)
MaxReservations == 2        \* the BMC issues at most this many reservation ids
MaxYield == 2               \* sdr_entries is followed for at most this many records

(***************************************************************************)
(* The environment: the BMC's repository and the responses it can give     *)
(***************************************************************************)
\* completion codes with no retry rule: C9h (parameter out of range), FFh
OtherCodes == {201, 255}
Codes == {CC_OK, CC_RES_CANCELED, CC_RESP_COULD_NOT_BE_PRV,
          CC_CANT_RET_NUM_REQ_BYTES} \cup OtherCodes
ReserveCodes == {CC_OK, 255}
\* values of the response field next_record_id
NextIds == {0, 5, LAST_RECORD_ID}
\* record ids a caller asks get_sdr for
RecordIds == {0, 5, 7, 9, 11}

Min(a, b) == IF a < b THEN a ELSE b

\* the record type byte of the record stored under an id
RepoType(id) ==
    CASE id = 0 -> SDR_TYPE_EVENT_ONLY_SENSOR_RECORD
      [] id = 5 -> SDR_TYPE_FRU_DEVICE_LOCATOR_RECORD
      [] id = 7 -> SDR_TYPE_MANAGEMENT_CONTROLLER_CONFIRMATION_RECORD
      [] id = 9 -> SDR_TYPE_EVENT_ONLY_SENSOR_RECORD
      [] OTHER  -> SDR_TYPE_FRU_DEVICE_LOCATOR_RECORD

\* the body length byte of the record stored under an id (id 11 is a FRU
\* locator whose body is shorter than its layout)
RepoBodyLength(id) ==
    CASE id = 0 -> 0
      [] id = 5 -> 12
      [] id = 7 -> 3
      [] id = 9 -> 26
      [] OTHER  -> 4

\* the bytes of a record: id (little endian), version 0x51, type, body length,
\* then body bytes that differ from place to place
MkRecord(id, type, body_length) ==
    [i \in 1..(HEADER_LENGTH + body_length) |->
        CASE i = 1 -> id % 256
          [] i = 2 -> id \div 256
          [] i = 3 -> 81
          [] i = 4 -> type
          [] i = 5 -> body_length
          [] OTHER -> (id + 3 * i) % 256]

Repository(id) == MkRecord(id, RepoType(id), RepoBodyLength(id))

\* the record_data of a successful GetDeviceSdr response: the bytes asked for
BmcRead(id, offset, length) ==
    LET rec == Repository(id)
        hi  == Min(offset + length, Len(rec))
    IN  IF offset >= hi THEN << >> ELSE SubSeq(rec, offset + 1, hi)

(***************************************************************************)
(* Results: what a call returned or raised                                 *)
(***************************************************************************)
NoAnalog ==
    [analog_data_format |-> 0, linearization |-> 0, m |-> 0, b |-> 0,
     k1 |-> 0, k2 |-> 0]

NoResult ==
    [kind |-> "none", error |-> "", msg |-> "", code |-> 0, variant |-> "",
     data |-> << >>, next_id_set |-> FALSE, next_id |-> 0, analog |-> NoAnalog]

\* an exception: its class, its message (DecodingError) or its code
\* (CompletionCodeError)
Raise(error, msg, code) ==
    [NoResult EXCEPT !.kind = "error", !.error = error, !.msg = msg,
                     !.code = code]

\* pyipmi.utils.check_completion_code: raises CompletionCodeError(cc) for a
\* non-zero code, returns otherwise (the result is then left as it is)
check_completion_code(cc, otherwise) ==
    IF cc # CC_OK THEN Raise("CompletionCodeError", "", cc) ELSE otherwise

(***************************************************************************)
(* The record decoder: create_sdr and the constructors it calls            *)
(***************************************************************************)
\* Python truth value of an id argument: None and 0 are both false
Truthy(x) == x # None /\ x # 0

\* SdrFullSensorRecord._convert_complement
convert_complement(v, size) ==
    IF (v \div (2 ^ (size - 1))) % 2 = 1 THEN v - 2 ^ size ELSE v

\* the analog block of SdrFullSensorRecord.from_data (bytes 21, 24..30)
from_data_analog(units_1, lin, m, m_tol, b, b_acc, rexp_bexp) ==
    [analog_data_format |-> (units_1 \div 64) % 4,
     linearization      |-> lin % 128,
     m                  |-> (m % 256) + ((m_tol \div 64) % 4) * 256,
     b                  |-> convert_complement(
                               (b % 256) + ((b_acc \div 64) % 4) * 256, 10),
     k2                 |-> convert_complement((rexp_bexp \div 16) % 16, 4),
     k1                 |-> convert_complement(rexp_bexp % 16, 4)]

\* the number of body bytes from_data pops before buffer.to_string()
FixedBodyLength(variant) ==
    CASE variant = "Full"     -> 43
      [] variant = "Compact"  -> 27
      [] variant = "FruDeviceLocator" -> 11
      [] variant = "ManagementControllerDeviceLocator" -> 11
      [] OTHER -> 0

\* <variant>.from_data(data): pops the fixed fields of data[5:]; a pop past
\* the end fails inside pyipmi.utils.ByteBuffer
from_data(variant, data, obj) ==
    IF Len(data) - HEADER_LENGTH < FixedBodyLength(variant)
    THEN Raise("ByteBufferError", "pop past the end", 0)
    ELSE IF variant = "Full"
         THEN [obj EXCEPT !.analog =
                 from_data_analog(data[21], data[24], data[25], data[26],
                                  data[27], data[28], data[30])]
         ELSE obj

\* SdrCommon.from_response
from_response(data, obj) ==
    IF Len(data) < HEADER_LENGTH
    THEN Raise("DecodingError", "Invalid SDR length", Len(data))
    ELSE [obj EXCEPT !.data = data]

\* SdrCommon.__init__ after from_response: attach next_id when it is true
AttachNextId(obj, next_id) ==
    IF Truthy(next_id)
    THEN [obj EXCEPT !.next_id_set = TRUE, !.next_id = next_id]
    ELSE obj

\* SdrCommon.__init__(rsp, next_id)
SdrCommon_init(obj, data, next_id) ==
    LET parsed == IF data # << >> THEN from_response(data, obj) ELSE obj
    IN  IF parsed.kind = "error" THEN parsed ELSE AttachNextId(parsed, next_id)

\* Sdr<variant>.__init__(data, next_id)
SdrRecord(variant, data, next_id) ==
    LET fresh  == [NoResult EXCEPT !.kind = "sdr", !.variant = variant]
        common == SdrCommon_init(fresh, data, next_id)
    IN  IF common.kind = "error" THEN common
        ELSE IF data # << >> THEN from_data(variant, data, common)
        ELSE common

\* a slip of the dispatch: the two locator types taken for each other
SdrVariant_Swapped(sdr_type) ==
    CASE sdr_type = SDR_TYPE_FULL_SENSOR_RECORD -> "Full"
      [] sdr_type = SDR_TYPE_COMPACT_SENSOR_RECORD -> "Compact"
      [] sdr_type = SDR_TYPE_EVENT_ONLY_SENSOR_RECORD -> "EventOnly"
      [] sdr_type = SDR_TYPE_FRU_DEVICE_LOCATOR_RECORD ->
             "ManagementControllerDeviceLocator"
      [] sdr_type = SDR_TYPE_MANAGEMENT_CONTROLLER_DEVICE_LOCATOR_RECORD ->
             "FruDeviceLocator"
      [] OTHER -> "Unsupported"

\* the dispatch of create_sdr on the record type byte
SdrVariant(sdr_type) ==
    CASE sdr_type = SDR_TYPE_FULL_SENSOR_RECORD -> "Full"
      [] sdr_type = SDR_TYPE_COMPACT_SENSOR_RECORD -> "Compact"
      [] sdr_type = SDR_TYPE_EVENT_ONLY_SENSOR_RECORD -> "EventOnly"
      [] sdr_type = SDR_TYPE_FRU_DEVICE_LOCATOR_RECORD -> "FruDeviceLocator"
      [] sdr_type = SDR_TYPE_MANAGEMENT_CONTROLLER_DEVICE_LOCATOR_RECORD ->
             "ManagementControllerDeviceLocator"
      [] OTHER -> "Unsupported"

\* create_sdr(data, next_id); ord(data[3]) raises IndexError on a short data
create_sdr(data, next_id) ==
    IF Len(data) < 4
    THEN Raise("IndexError", "string index out of range", Len(data))
    ELSE LET sdr_type == data[4]
             variant  == SdrVariant(sdr_type)
         IN  IF variant = "Unsupported"
             THEN Raise("DecodingError", "Unsupported SDR type", sdr_type)
             ELSE SdrRecord(variant, data, next_id)

(***************************************************************************)
(* Sdr.get_sdr                                                             *)
(***************************************************************************)
NoReq == [reservation_id |-> 0, record_id |-> 0, offset |-> 0, length |-> 0]
NoRsp == [completion_code |-> 0, next_record_id |-> 0, record_data |-> << >>]
NoWire == [phase |-> "none", reservation_id |-> 0, record_id |-> 0,
           offset |-> 0, length |-> 0]

\* a request as it goes out
Sent(phase, r) ==
    [phase |-> phase, reservation_id |-> r.reservation_id,
     record_id |-> r.record_id, offset |-> r.offset, length |-> r.length]

convVars == << raw, value, back >>
callerVars == << mode, e_reservation_id, e_record_id, yielded, convVars >>
readerLocals == << record_id, req, rsp, retry, max_req_len, record_data,
                   record_length, next_record_id >>

\* get_sdr returns a record or raises: control goes back to the caller
Finish(res) ==
    /\ result' = res
    /\ pc' = IF mode = "get_sdr" THEN "done" ELSE "returned"

\* Sdr.get_reservation_id answered with completion code rc: the id returned
\* (the BMC's next id), or the CompletionCodeError raised
get_reservation_id(rc) ==
    check_completion_code(rc,
        [NoResult EXCEPT !.kind = "id", !.code = bmc_reservations + 1])

\* the BMC issues a new reservation id only on a successful reserve
Reserved(rc) ==
    bmc_reservations' =
        IF rc = CC_OK THEN bmc_reservations + 1 ELSE bmc_reservations

\* lines 51-60: acquire a reservation when none was supplied, build the
\* header request
GetSdrCall ==
    /\ pc = "call"
    /\ \E rc \in (IF reservation_id = None THEN ReserveCodes ELSE {CC_OK}) :
         LET got == IF reservation_id = None
                    THEN get_reservation_id(rc)
                    ELSE [NoResult EXCEPT !.kind = "id",
                                          !.code = reservation_id]
         IN  /\ reservation_id = None => bmc_reservations < MaxReservations
             /\ IF reservation_id = None
                THEN Reserved(rc) ELSE UNCHANGED bmc_reservations
             /\ IF got.kind = "error"
                THEN /\ Finish(got)
                     /\ UNCHANGED << req, retry >>
                ELSE /\ req' = [reservation_id |-> got.code,
                                record_id |-> record_id,
                                offset |-> 0, length |-> HEADER_LENGTH]
                     /\ retry' = HEADER_RETRY
                     /\ pc' = "header"
                     /\ UNCHANGED result
    /\ UNCHANGED << callerVars, record_id, reservation_id, rsp, max_req_len,
                    record_data, record_length, next_record_id, wire,
                    attempts, hdr_requests, restarted, cap8 >>

\* lines 62-63
HeaderExhausted ==
    /\ pc = "header"
    /\ retry = 0
    /\ Finish(Raise("RetryError", "", 0))
    /\ UNCHANGED << callerVars, readerLocals, reservation_id,
                    bmc_reservations, wire, attempts, hdr_requests, restarted, cap8 >>

\* lines 65-66, 79-90: the header arrived
HeaderOnSuccess(data, nxt) ==
    /\ next_record_id' = nxt
    /\ record_data' = data
    /\ record_id' = data[1] + 256 * data[2]
    /\ record_length' = data[5] + HEADER_LENGTH
    /\ req' = [req EXCEPT !.offset = Len(data)]
    /\ max_req_len' = INITIAL_MAX_REQ_LEN
    /\ retry' = BODY_RETRY
    /\ hdr_requests' = 0
    /\ pc' = "body"
    /\ UNCHANGED << result, bmc_reservations >>

\* lines 67-71
HeaderOnResCanceled(rc) ==
    LET got == get_reservation_id(rc)
    IN  /\ Reserved(rc)
        /\ IF got.kind = "error"
           THEN /\ Finish(got)
                /\ UNCHANGED << req, retry >>
           ELSE /\ req' = [req EXCEPT !.reservation_id = got.code]
                /\ retry' = retry - 1
                /\ UNCHANGED << pc, result >>
        /\ hdr_requests' = hdr_requests + 1
        /\ UNCHANGED << record_id, max_req_len, record_data, record_length,
                        next_record_id >>

\* lines 72-75
HeaderOnCouldNotBeProvided ==
    /\ retry' = retry - 1
    /\ hdr_requests' = hdr_requests + 1
    /\ UNCHANGED << pc, result, req, record_id, max_req_len, record_data,
                    record_length, next_record_id, bmc_reservations >>

\* a slip of lines 76-77: an unknown code handled like lines 72-75
HeaderOnOther_Retry(cc) == HeaderOnCouldNotBeProvided

\* lines 76-77 (the code is non-zero here)
HeaderOnOther(cc) ==
    /\ Finish(check_completion_code(cc, result))
    /\ hdr_requests' = hdr_requests + 1
    /\ UNCHANGED << req, retry, record_id, max_req_len, record_data,
                    record_length, next_record_id, bmc_reservations >>

\* lines 64-77: one pass of the header loop, the BMC answering with cc
HeaderRequest ==
    /\ pc = "header"
    /\ retry # 0
    /\ wire' = Sent("header", req)
    /\ \E cc \in Codes :
       \E nxt \in (IF cc = CC_OK THEN NextIds ELSE {0}) :
       \E rc \in (IF cc = CC_RES_CANCELED THEN ReserveCodes ELSE {CC_OK}) :
         LET data == IF cc = CC_OK
                     THEN BmcRead(req.record_id, req.offset, req.length)
                     ELSE << >>
         IN  /\ cc = CC_RES_CANCELED => bmc_reservations < MaxReservations
             /\ rsp' = [completion_code |-> cc, next_record_id |-> nxt,
                        record_data |-> data]
             /\ cap8' = (cc = CC_OK)
             /\ IF cc = 0 THEN HeaderOnSuccess(data, nxt)
                ELSE IF cc = CC_RES_CANCELED THEN HeaderOnResCanceled(rc)
                ELSE IF cc = CC_RESP_COULD_NOT_BE_PRV
                     THEN HeaderOnCouldNotBeProvided
                ELSE HeaderOnOther(cc)
    /\ UNCHANGED << callerVars, reservation_id, attempts, restarted >>

\* lines 93-94
BodyExhausted ==
    /\ pc = "body"
    /\ retry = 0
    /\ Finish(Raise("RetryError", "", 0))
    /\ UNCHANGED << callerVars, readerLocals, reservation_id,
                    bmc_reservations, wire, attempts, hdr_requests, restarted, cap8 >>

\* lines 96-98: the length asked for
RequestLength(page, offset, total) ==
    IF offset + page > total THEN total - offset ELSE page

\* a slip of line 102: the page size lowered by twice the step
ShrunkPage_Twice(page) == page - 2 * REQ_LEN_STEP

\* line 102
ShrunkPage(page) == page - REQ_LEN_STEP

\* lines 101-105
BodyOnCantReturn(sent) ==
    /\ max_req_len' = ShrunkPage(max_req_len)
    /\ retry' = IF max_req_len' <= 0 THEN 0 ELSE retry
    /\ req' = sent
    /\ UNCHANGED << pc, result, record_data, attempts, restarted,
                    bmc_reservations >>

\* a slip of lines 106-113: line 111 (req.offset = 0) left out
BodyOnResCanceled_KeepOffset(sent, rc) ==
    LET got == get_reservation_id(rc)
    IN  /\ Reserved(rc)
        /\ IF got.kind = "error"
           THEN /\ Finish(got)
                /\ req' = sent
                /\ UNCHANGED << retry, record_data, attempts, restarted >>
           ELSE /\ req' = [sent EXCEPT !.reservation_id = got.code]
                /\ record_data' = << >>
                /\ retry' = retry - 1
                /\ attempts' = attempts + 1
                /\ restarted' = TRUE
                /\ UNCHANGED << pc, result >>
        /\ UNCHANGED max_req_len

\* lines 106-113
BodyOnResCanceled(sent, rc) ==
    LET got == get_reservation_id(rc)
    IN  /\ Reserved(rc)
        /\ IF got.kind = "error"
           THEN /\ Finish(got)
                /\ req' = sent
                /\ UNCHANGED << retry, record_data, attempts, restarted >>
           ELSE /\ req' = [sent EXCEPT !.reservation_id = got.code,
                                       !.offset = 0]
                /\ record_data' = << >>
                /\ retry' = retry - 1
                /\ attempts' = attempts + 1
                /\ restarted' = TRUE
                /\ UNCHANGED << pc, result >>
        /\ UNCHANGED max_req_len

\* a slip of lines 114-117: line 116 (retry -= 1) left out
BodyOnCouldNotBeProvided_NoDecrement(sent) ==
    /\ retry' = retry
    /\ attempts' = attempts + 1
    /\ req' = sent
    /\ UNCHANGED << pc, result, record_data, max_req_len, restarted,
                    bmc_reservations >>

\* lines 114-117
BodyOnCouldNotBeProvided(sent) ==
    /\ retry' = retry - 1
    /\ attempts' = attempts + 1
    /\ req' = sent
    /\ UNCHANGED << pc, result, record_data, max_req_len, restarted,
                    bmc_reservations >>

\* lines 118-119 with a non-zero code
BodyOnOther(sent, cc) ==
    /\ Finish(check_completion_code(cc, result))
    /\ req' = sent
    /\ UNCHANGED << retry, record_data, max_req_len, attempts, restarted,
                    bmc_reservations >>

\* lines 121-124 and 126: append, advance, decode when complete
BodyOnSuccess(sent, data) ==
    /\ record_data' = record_data \o data
    /\ req' = [sent EXCEPT !.offset = Len(record_data')]
    /\ IF Len(record_data') >= record_length
       THEN Finish(create_sdr(record_data', next_record_id))
       ELSE UNCHANGED << pc, result >>
    /\ UNCHANGED << retry, max_req_len, attempts, restarted, bmc_reservations >>

\* what a transport that accepts only reads of at most 8 bytes answers
AnswerOfCap8(length) ==
    IF length > 8 THEN CC_CANT_RET_NUM_REQ_BYTES ELSE CC_OK

\* lines 96-124: one pass of the body loop, the BMC answering with cc
BodyRequest ==
    /\ pc = "body"
    /\ retry # 0
    /\ LET sent == [req EXCEPT !.length =
                       RequestLength(max_req_len, req.offset, record_length)]
       IN  /\ wire' = Sent("body", sent)
           /\ \E cc \in Codes :
              \E rc \in (IF cc = CC_RES_CANCELED THEN ReserveCodes
                                                 ELSE {CC_OK}) :
                LET data == IF cc = CC_OK
                            THEN BmcRead(sent.record_id, sent.offset,
                                         sent.length)
                            ELSE << >>
                IN  /\ cc = CC_RES_CANCELED =>
                           bmc_reservations < MaxReservations
                    /\ rsp' = [completion_code |-> cc, next_record_id |-> 0,
                               record_data |-> data]
                    /\ cap8' = (cap8 /\ cc = AnswerOfCap8(sent.length))
                    /\ IF cc = CC_CANT_RET_NUM_REQ_BYTES
                       THEN BodyOnCantReturn(sent)
                       ELSE IF cc = CC_RES_CANCELED
                       THEN BodyOnResCanceled(sent, rc)
                       ELSE IF cc = BODY_CC_COULD_NOT_BE_PRV
                       THEN BodyOnCouldNotBeProvided(sent)
                       ELSE IF cc # CC_OK THEN BodyOnOther(sent, cc)
                       ELSE BodyOnSuccess(sent, data)
    /\ UNCHANGED << callerVars, reservation_id, record_id, record_length,
                    next_record_id, hdr_requests >>

(***************************************************************************)
(* Sdr.sdr_entries (get_sdr_list collects what it yields)                  *)
(***************************************************************************)
\* the locals and histories of a get_sdr call about to start
EnterGetSdr(rid, resv) ==
    /\ record_id' = rid
    /\ reservation_id' = resv
    /\ req' = NoReq
    /\ rsp' = NoRsp
    /\ retry' = 0
    /\ record_data' = << >>
    /\ record_length' = 0
    /\ next_record_id' = 0
    /\ wire' = NoWire
    /\ attempts' = 0
    /\ hdr_requests' = 0
    /\ restarted' = FALSE
    /\ cap8' = FALSE

\* lines 132-136: reserve, record_id = 0, first call of get_sdr
EntriesStart ==
    /\ pc = "entries"
    /\ bmc_reservations < MaxReservations
    /\ \E rc \in ReserveCodes :
         LET got == get_reservation_id(rc)
         IN  /\ Reserved(rc)
             /\ IF got.kind = "error"
                THEN /\ result' = got
                     /\ pc' = "done"
                     /\ UNCHANGED << e_reservation_id, e_record_id,
                                     readerLocals, reservation_id, wire,
                                     attempts, hdr_requests, restarted, cap8 >>
                ELSE /\ e_reservation_id' = got.code
                     /\ e_record_id' = 0
                     /\ EnterGetSdr(0, got.code)
                     /\ pc' = "call"
                     /\ UNCHANGED << result, max_req_len >>
    /\ UNCHANGED << mode, yielded, convVars >>

\* line 137: yield s (an exception of get_sdr ends the generator instead)
EntriesYield ==
    /\ pc = "returned"
    /\ IF result.kind = "error"
       THEN /\ pc' = "done"
            /\ UNCHANGED yielded
       ELSE /\ yielded' = Append(yielded, result)
            /\ pc' = "yielded"
    /\ UNCHANGED << mode, e_reservation_id, e_record_id, result, readerLocals,
                    reservation_id, bmc_reservations, wire, attempts,
                    hdr_requests, restarted, cap8, convVars >>

\* lines 138-140 and 136: s.next_id is an AttributeError when the attribute
\* was never set
EntriesAdvance ==
    /\ pc = "yielded"
    /\ IF ~result.next_id_set
       THEN /\ result' = Raise("AttributeError", "next_id", 0)
            /\ pc' = "done"
            /\ UNCHANGED << e_record_id, readerLocals, reservation_id, wire,
                            attempts, hdr_requests, restarted, cap8 >>
       ELSE IF result.next_id = LAST_RECORD_ID
       THEN /\ pc' = "done"
            /\ UNCHANGED << result, e_record_id, readerLocals, reservation_id,
                            wire, attempts, hdr_requests, restarted, cap8 >>
       ELSE /\ Len(yielded) < MaxYield
            /\ e_record_id' = result.next_id
            /\ EnterGetSdr(result.next_id, e_reservation_id)
            /\ pc' = "call"
            /\ UNCHANGED << result, max_req_len >>
    /\ UNCHANGED << mode, e_reservation_id, yielded, bmc_reservations,
                    convVars >>

(***************************************************************************)
(* The reader and the enumerator as one state machine                      *)
(***************************************************************************)
\* the reader's state before any call
Idle ==
    /\ reservation_id = None
    /\ req = NoReq
    /\ rsp = NoRsp
    /\ retry = 0
    /\ max_req_len = 0
    /\ record_length = 0
    /\ e_reservation_id = 0
    /\ e_record_id = 0
    /\ yielded = << >>
    /\ bmc_reservations = 0
    /\ wire = NoWire
    /\ attempts = 0
    /\ hdr_requests = 0
    /\ restarted = FALSE
    /\ cap8 = FALSE

NoValue == [kind |-> "none", error |-> "", num |-> 0]

Init ==
    /\ mode \in {"get_sdr", "sdr_entries"}
    /\ pc = IF mode = "get_sdr" THEN "call" ELSE "entries"
    /\ record_id \in (IF mode = "get_sdr" THEN RecordIds ELSE {0})
    /\ Idle
    /\ record_data = << >>
    /\ next_record_id = 0
    /\ result = NoResult
    /\ raw = None
    /\ value = NoValue
    /\ back = NoValue

Next ==
    \/ GetSdrCall
    \/ HeaderExhausted
    \/ HeaderRequest
    \/ BodyExhausted
    \/ BodyRequest
    \/ EntriesStart
    \/ EntriesYield
    \/ EntriesAdvance

Spec == Init /\ [][Next]_vars

(***************************************************************************)
(* One call of get_sdr on its own.  send_message blocks until the BMC has  *)
(* answered, so a step of the call that can be taken is taken.             *)
(***************************************************************************)
InitGetSdr == Init /\ mode = "get_sdr"

NextGetSdr ==
    \/ GetSdrCall
    \/ HeaderExhausted
    \/ HeaderRequest
    \/ BodyExhausted
    \/ BodyRequest

SpecGetSdr == InitGetSdr /\ [][NextGetSdr]_vars /\ WF_vars(NextGetSdr)

(***************************************************************************)
(* create_sdr on its own: the decoder applied to any byte sequence         *)
(***************************************************************************)
MaxBody == 45               \* the longest record body handed to create_sdr

\* record type bytes tried: the eight named types, an OEM type and 0
DecodeTypes == {0, 1, 2, 3, 8, 17, 18, 19, 20, 192}

\* the first n bytes of a sequence
Prefix(seq, n) == [i \in 1..Min(n, Len(seq)) |-> seq[i]]

\* whole records of every body length, and every cut of a header
DecodeInputs ==
    { MkRecord(7, t, bl) : t \in DecodeTypes, bl \in 0..MaxBody }
    \cup { Prefix(MkRecord(7, t, 0), n) : t \in DecodeTypes,
                                          n \in 0..(HEADER_LENGTH - 1) }

InitDecode ==
    /\ mode = "create_sdr"
    /\ pc = "decode"
    /\ record_id = 0
    /\ Idle
    /\ record_data \in DecodeInputs
    /\ next_record_id \in {None} \cup NextIds
    /\ result = NoResult
    /\ raw = None
    /\ value = NoValue
    /\ back = NoValue

\* create_sdr(data, next_id)
Decode ==
    /\ pc = "decode"
    /\ result' = create_sdr(record_data, next_record_id)
    /\ pc' = "done"
    /\ UNCHANGED << callerVars, record_id, reservation_id, req, rsp, retry,
                    max_req_len, record_data, record_length, next_record_id,
                    bmc_reservations, wire, attempts, hdr_requests, restarted, cap8 >>

NextDecode == Decode

SpecDecode == InitDecode /\ [][NextDecode]_vars

(***************************************************************************)
(* The analog value converter of SdrFullSensorRecord                       *)
(***************************************************************************)
DATA_FMT_UNSIGNED == 0
DATA_FMT_1S_COMPLEMENT == 1
DATA_FMT_2S_COMPLEMENT == 2
DATA_FMT_NONE == 3
L_LINEAR == 0
L_SQR == 8
L_CUBE == 9
L_CUBERT == 11
BYTE_MAX == 255             \* 0xff

Value(n) == [kind |-> "value", error |-> "", num |-> n]
ValueError(e) == [kind |-> "error", error |-> e, num |-> 0]

\* 10**k for the exponents the model draws (k >= 0, where the float is exact)
Pow10(k) == 10 ^ k

\* lines 282-288: the sign adjustment of a raw byte
SignAdjust(fmt, r) ==
    IF fmt = DATA_FMT_1S_COMPLEMENT
    THEN IF (r \div 128) % 2 = 1 THEN -(127 - (r % 128)) ELSE r
    ELSE IF fmt = DATA_FMT_2S_COMPLEMENT
    THEN IF (r \div 128) % 2 = 1 THEN -(127 - (r % 128)) - 1 ELSE r
    ELSE r

\* the property l: the linearizations with integer results are computed, the
\* real-valued ones (ln, log, exp, 1/x, roots) are returned as "real"
Linearize(lin, x) ==
    IF lin = L_LINEAR THEN Value(x)
    ELSE IF lin = L_SQR THEN Value(x * x)
    ELSE IF lin = L_CUBE THEN Value(x * x * x)
    ELSE IF lin <= L_CUBERT THEN [kind |-> "real", error |-> "", num |-> 0]
    ELSE ValueError("DecodingError")

\* SdrFullSensorRecord.convert_sensor_raw_to_value
convert_sensor_raw_to_value(s, r) ==
    Linearize(s.linearization % 128,
              (s.m * SignAdjust(s.analog_data_format, r)
                  + s.b * Pow10(s.k1)) * Pow10(s.k2))

\* Python 2 round(n / d) for d > 0: to the nearest, halves away from zero
RoundDiv(n, d) ==
    IF n >= 0 THEN (2 * n + d) \div (2 * d)
              ELSE -((2 * (-n) + d) \div (2 * d))

\* line 299 and 309: int(round(value * 10**-k2 / m - b * 10**k1)), m > 0
InverseRaw(s, v) ==
    RoundDiv(v - s.b * Pow10(s.k1) * (Pow10(s.k2) * s.m), Pow10(s.k2) * s.m)

\* SdrFullSensorRecord.convert_sensor_value_to_raw
convert_sensor_value_to_raw(s, v) ==
    IF s.linearization % 128 # L_LINEAR THEN ValueError("NotImplementedError")
    ELSE IF s.m = 0 THEN ValueError("ZeroDivisionError")
    ELSE IF s.analog_data_format \in {DATA_FMT_1S_COMPLEMENT,
                                      DATA_FMT_2S_COMPLEMENT} /\ v < 0
    THEN ValueError("NotImplementedError")
    ELSE IF InverseRaw(s, v) > BYTE_MAX THEN ValueError("ValueError")
    ELSE [kind |-> "raw", error |-> "", num |-> InverseRaw(s, v)]

MaxRaw == 12                \* raw bytes 0..MaxRaw are tried, and those below
MaxM == 3                   \* the low byte of m is drawn from 0..MaxM

Raws == (0..MaxRaw) \cup (126..129) \cup (254..255)
\* values a caller hands to convert_sensor_value_to_raw
CallerValues == {-300, -3, -1, 0, 1, 7, 255, 256, 600}
\* (b, b_acc): b = 0, 1, 2, -1, -2
BBytes == { <<0, 0>>, <<1, 0>>, <<2, 0>>, <<255, 192>>, <<254, 192>> }

\* a full sensor record with the given analog bytes
MkFull(units_1, lin, m, m_tol, b, b_acc, rexp_bexp) ==
    [MkRecord(1, SDR_TYPE_FULL_SENSOR_RECORD, 43) EXCEPT
        ![21] = units_1, ![24] = lin, ![25] = m, ![26] = m_tol,
        ![27] = b, ![28] = b_acc, ![30] = rexp_bexp]

\* the decoded sensors the converter is tried on: every analog data format,
\* linearizations 0, 8, 12 and 0 with the reserved bit set, m with and without
\* its high bits (without them where the scaled value is squared), k1 in
\* {0, 1}, k2 = 0
Sensors ==
    { create_sdr(MkFull(u, l, m, mt, bb[1], bb[2], k), None) :
        u \in {0, 64, 128, 192}, l \in {0, 8, 12, 128}, m \in 0..MaxM,
        mt \in {0, 64}, bb \in BBytes, k \in {0, 1} }
    \ { create_sdr(MkFull(u, 8, m, 64, bb[1], bb[2], k), None) :
        u \in {0, 64, 128, 192}, m \in 0..MaxM, bb \in BBytes,
        k \in {0, 1} }

InitConv ==
    /\ mode = "convert"
    /\ pc = "sensor"
    /\ record_id = 0
    /\ Idle
    /\ record_data = << >>
    /\ next_record_id = 0
    /\ result \in Sensors
    /\ raw = None
    /\ value = NoValue
    /\ back = NoValue

readerVars == << record_id, reservation_id, req, rsp, retry, max_req_len,
                 record_data, record_length, next_record_id, result,
                 bmc_reservations, wire, attempts, hdr_requests, restarted, cap8 >>

\* value = sdr.convert_sensor_raw_to_value(r)
ConvertRawToValue ==
    /\ pc = "sensor"
    /\ \E r \in Raws :
         /\ raw' = r
         /\ value' = convert_sensor_raw_to_value(result.analog, r)
    /\ pc' = "value"
    /\ UNCHANGED << mode, e_reservation_id, e_record_id, yielded, back,
                    readerVars >>

\* the caller has a value of its own
CallerValue ==
    /\ pc = "sensor"
    /\ \E v \in CallerValues : value' = Value(v)
    /\ raw' = None
    /\ pc' = "value"
    /\ UNCHANGED << mode, e_reservation_id, e_record_id, yielded, back,
                    readerVars >>

\* back = sdr.convert_sensor_value_to_raw(value)
ConvertValueToRaw ==
    /\ pc = "value"
    /\ value.kind = "value"
    /\ back' = convert_sensor_value_to_raw(result.analog, value.num)
    /\ pc' = "done"
    /\ UNCHANGED << mode, e_reservation_id, e_record_id, yielded, raw, value,
                    readerVars >>

NextConv ==
    \/ ConvertRawToValue
    \/ CallerValue
    \/ ConvertValueToRaw

SpecConv == InitConv /\ [][NextConv]_vars

(***************************************************************************)
(* get_sensor_reading: one GetSensorReading exchange and the tuple built   *)
(* from the response                                                       *)
(***************************************************************************)
\* the sensor_number argument
SensorNumbers == {1, 2}
\* rsp.sensor_reading
Readings == {0, 7, 255}
\* rsp.states1 and rsp.states2: None when the response does not carry the byte
StateMasks == {None, 0, 1, 128, 255}
\* rsp.completion_code of the GetSensorReading response
ReadingCodes == {CC_OK} \cup OtherCodes

RECURSIVE BitOr(_, _)
\* a | b on non-negative integers
BitOr(a, b) ==
    IF a = 0 THEN b
    ELSE IF b = 0 THEN a
    ELSE (IF a % 2 = 1 \/ b % 2 = 1 THEN 1 ELSE 0)
         + 2 * BitOr(a \div 2, b \div 2)

\* x << n
ShiftLeft(x, n) == x * 2 ^ n

\* the tuple (reading, states) get_sensor_reading returns
ReadingTuple(reading, states) ==
    [kind |-> "reading", reading |-> reading, states |-> states]

\* lines 158-169: the body of get_sensor_reading once rsp has arrived
get_sensor_reading(r) ==
    LET reading == IF Truthy(r.update_in_progress)
                   THEN None ELSE r.sensor_reading
        states == IF r.states1 # None THEN r.states1 ELSE None
    IN  check_completion_code(r.completion_code,
            IF r.states2 # None
            THEN IF states = None
                 THEN Raise("TypeError",
                            "unsupported operand type(s) for |=", 0)
                 ELSE ReadingTuple(reading,
                                   BitOr(states, ShiftLeft(r.states2, 8)))
            ELSE ReadingTuple(reading, states))

InitReading ==
    /\ mode = "get_sensor_reading"
    /\ pc = "reading"
    /\ record_id = 0
    /\ Idle
    /\ record_data = << >>
    /\ next_record_id = 0
    /\ result = NoResult
    /\ raw = None
    /\ value = NoValue
    /\ back = NoValue

\* lines 155-169: send GetSensorReading for the sensor, take the response,
\* return the tuple or raise
GetSensorReading ==
    /\ pc = "reading"
    /\ \E n \in SensorNumbers, cc \in ReadingCodes, reading \in Readings,
          uip \in {0, 1}, s1 \in StateMasks, s2 \in StateMasks :
         /\ req' = [sensor_number |-> n]
         /\ rsp' = [completion_code |-> cc, sensor_reading |-> reading,
                    update_in_progress |-> uip, states1 |-> s1,
                    states2 |-> s2]
         /\ result' = get_sensor_reading(rsp')
    /\ pc' = "done"
    /\ UNCHANGED << callerVars, record_id, reservation_id, retry, max_req_len,
                    record_data, record_length, next_record_id,
                    bmc_reservations, wire, attempts, hdr_requests, restarted,
                    cap8 >>

NextReading == GetSensorReading

SpecReading == InitReading /\ [][NextReading]_vars

(***************************************************************************)
(* Properties of get_sdr                                                   *)
(***************************************************************************)
\* get_sdr has just returned or raised
Returned == (mode = "get_sdr" /\ pc = "done") \/ pc = "returned"

\* get_sdr has just completed a transfer and handed record_data to create_sdr
Decoded ==
    /\ Returned
    /\ wire.phase = "body"
    /\ rsp.completion_code = CC_OK

\* C1: reservation-loss recovery in the body phase.  A body-phase response
\* ReservationCanceled after which the call goes on (the reservation was
\* re-acquired) leaves the accumulator empty and the request offset 0; and
\* when a call whose body transfer was restarted hands its bytes to the
\* decoder, they are exactly the 5 + body_length bytes of the record, and
\* the result is the one an uninterrupted transfer of that record decodes to.
C1_ReservationLossRecovery ==
    [][ /\ (BodyRequest /\ rsp'.completion_code = CC_RES_CANCELED
                        /\ pc' = "body")
            => (record_data' = << >> /\ req'.offset = 0)
        /\ (BodyRequest /\ Decoded' /\ restarted')
            => /\ record_data' = Repository(wire'.record_id)
               /\ Len(record_data') = HEADER_LENGTH + record_data'[5]
               /\ result' = create_sdr(Repository(wire'.record_id),
                                       next_record_id) ]_vars

\* C1 witness: a record with a body came back from a restarted transfer
C1_Witness ==
    /\ Decoded
    /\ restarted
    /\ result.kind = "sdr"
    /\ Len(record_data) > HEADER_LENGTH
    /\ record_data = Repository(wire.record_id)

\* C2 as stated: every CantReturnRequestedLength response lowers the page
\* size by exactly 4 and leaves offset, accumulator and attempt budget alone
C2_Original ==
    [][ (BodyRequest /\ rsp'.completion_code = CC_CANT_RET_NUM_REQ_BYTES)
            => /\ max_req_len' = max_req_len - 4
               /\ req'.offset = req.offset
               /\ record_data' = record_data
               /\ retry' = retry ]_vars

\* C2 amended: a CantReturnRequestedLength response lowers the page size by
\* exactly 4 and leaves offset and accumulator alone; it leaves the attempt
\* budget alone unless the page size has thereby reached <= 0, and then it
\* sets the budget to 0.  Against a transport that accepts only reads of at
\* most 8 bytes the page size goes 20 -> 16 -> 12 -> 8 and no lower, no
\* attempt is consumed, and the call ends with what the decoder makes of the
\* whole record; the page size ends at 8 when the record has more than 8
\* body bytes.
C2_PageSizeShrink ==
    [][ /\ (BodyRequest /\ rsp'.completion_code = CC_CANT_RET_NUM_REQ_BYTES)
            => /\ max_req_len' = max_req_len - 4
               /\ req'.offset = req.offset
               /\ record_data' = record_data
               /\ retry' = IF max_req_len' <= 0 THEN 0 ELSE retry
        /\ (BodyRequest /\ cap8')
            => /\ max_req_len' \in {20, 16, 12, 8}
               /\ max_req_len' \in {max_req_len, max_req_len - 4}
               /\ retry' = BODY_RETRY
               /\ attempts' = 0
               /\ pc' # "body" =>
                    /\ Decoded'
                    /\ record_data' = Repository(wire'.record_id)
                    /\ record_length > HEADER_LENGTH + 8 => max_req_len' = 8
                    /\ record_length <= HEADER_LENGTH + 8 => max_req_len' = 20
       ]_vars

\* C2 witness: a record of more than 8 body bytes was read to the end through
\* the 8-byte transport, the page size having come down to 8
C2_Witness ==
    /\ Decoded
    /\ cap8
    /\ max_req_len = 8
    /\ retry = BODY_RETRY
    /\ result.kind = "sdr"
    /\ Len(record_data) > HEADER_LENGTH + 8

\* C3: get_sdr sends no read request once 5 + body_length bytes are
\* accumulated, and no request asks for bytes at or beyond that offset
C3_StopsWhenComplete ==
    [][ BodyRequest
            => /\ Len(record_data) < record_length
               /\ wire'.offset < record_length
               /\ wire'.offset + wire'.length <= record_length ]_vars

\* a get_sdr call is running
InGetSdr == pc \in {"call", "header", "body"}

\* what decreases with every pass of the body loop
BodyRank ==
    (retry * 32 + max_req_len) * 512 + (record_length - req.offset)

C4_Budgets ==
    /\ Returned =>
        \/ result.kind = "sdr"
        \/ /\ result.kind = "error"
           /\ result.error \in {"CompletionCodeError", "RetryError",
                                "DecodingError", "ByteBufferError"}
    /\ hdr_requests <= HEADER_RETRY
    /\ pc = "header" => retry = HEADER_RETRY - hdr_requests
    /\ (Returned /\ wire.phase = "header" /\ result.error = "RetryError")
        => hdr_requests = HEADER_RETRY
    /\ attempts <= BODY_RETRY
    /\ pc = "body" =>
        /\ retry = 0 <=> (attempts = BODY_RETRY \/ max_req_len <= 0)
        /\ retry >= 0 /\ max_req_len >= 0 /\ req.offset <= record_length
    /\ (Returned /\ wire.phase = "body" /\ result.error = "RetryError")
        => (attempts = BODY_RETRY \/ max_req_len <= 0)

C5_ImmediateFailure ==
    [][ /\ ( \/ /\ HeaderRequest
                /\ rsp'.completion_code \notin
                     {CC_OK, CC_RES_CANCELED, CC_RESP_COULD_NOT_BE_PRV}
             \/ /\ BodyRequest
                /\ rsp'.completion_code \notin
                     {CC_OK, CC_RES_CANCELED, BODY_CC_COULD_NOT_BE_PRV,
                      CC_CANT_RET_NUM_REQ_BYTES} )
            => /\ Returned'
               /\ result'.kind = "error"
               /\ result'.error = "CompletionCodeError"
               /\ result'.code = rsp'.completion_code
               /\ retry' = retry
               /\ attempts' = attempts
               /\ bmc_reservations' = bmc_reservations
               /\ req'.reservation_id = req.reservation_id
        /\ (Returned /\ result.kind = "error")
            => /\ wire' = wire
               /\ bmc_reservations' = bmc_reservations ]_vars

\* C5 witness: the body phase was ended by code C9h after an attempt was used
C5_Witness ==
    /\ Returned
    /\ wire.phase = "body"
    /\ rsp.completion_code = 201
    /\ result.error = "CompletionCodeError"
    /\ result.code = 201
    /\ attempts > 0

(***************************************************************************)
(* Properties of sdr_entries                                               *)
(***************************************************************************)
\* C6: the enumeration reads record 0 first, then always the record named by
\* the next_record_id of the record it has just yielded, and stops (without
\* an error) right after the first record whose next_record_id is 0xFFFF
C6_ChainOrder ==
    [][ /\ (EntriesStart /\ pc' = "call") => record_id' = 0
        /\ EntriesAdvance =>
             IF next_record_id = LAST_RECORD_ID
             THEN pc' = "done" /\ result' = result
             ELSE pc' = "call" /\ record_id' = next_record_id ]_vars

\* C7: a record returned by get_sdr carries the next_record_id of the
\* successful header response
C7_NextRecordIdAttached ==
    (Returned /\ result.kind = "sdr")
        => (result.next_id_set /\ result.next_id = next_record_id)

\* C13: within one pass of sdr_entries, once a get_sdr call has re-acquired
\* a reservation after a ReservationCanceled response, every read request
\* sent afterwards (the first header request of each later record included)
\* carries the most recently acquired reservation id
C13_ReservationFreshness ==
    [][ ( /\ mode = "sdr_entries"
          /\ HeaderRequest \/ BodyRequest
          /\ bmc_reservations > e_reservation_id )
            => wire'.reservation_id = bmc_reservations ]_vars

(***************************************************************************)
(* Properties of create_sdr                                                *)
(***************************************************************************)
\* create_sdr has been applied to record_data
DecodeDone == mode = "create_sdr" /\ pc = "done"

\* C8: the dispatch is total over the record type byte: on a whole record
\* the types 0x01, 0x02, 0x03, 0x11, 0x12 give the Full, Compact, EventOnly,
\* FruDeviceLocator and ManagementControllerDeviceLocator variants; every
\* other type byte fails with DecodingError 'Unsupported SDR type' naming it
C8_DispatchTotal ==
    (DecodeDone /\ Len(record_data) >= 4) =>
        LET t == record_data[4]
            body == Len(record_data) - HEADER_LENGTH
            Is(variant) == result.kind = "sdr" /\ result.variant = variant
                           /\ result.data = record_data
        IN  /\ (t = 1 /\ body >= 43) => Is("Full")
            /\ (t = 2 /\ body >= 27) => Is("Compact")
            /\ (t = 3 /\ body >= 0) => Is("EventOnly")
            /\ (t = 17 /\ body >= 11) => Is("FruDeviceLocator")
            /\ (t = 18 /\ body >= 11) =>
                   Is("ManagementControllerDeviceLocator")
            /\ t \notin {1, 2, 3, 17, 18} =>
                   /\ result.kind = "error"
                   /\ result.error = "DecodingError"
                   /\ result.msg = "Unsupported SDR type"
                   /\ result.code = t

\* C8 witness: a FRU device locator record was decoded
C8_Witness ==
    /\ DecodeDone
    /\ Len(record_data) >= HEADER_LENGTH + FixedBodyLength("FruDeviceLocator")
    /\ record_data[4] = 17
    /\ result.kind = "sdr"
    /\ result.variant = "FruDeviceLocator"

\* C9: decoding fewer than 5 bytes fails with DecodingError
C9_ShortDataDecodingError ==
    (DecodeDone /\ Len(record_data) < HEADER_LENGTH)
        => (result.kind = "error" /\ result.error = "DecodingError")

(***************************************************************************)
(* Properties of the analog value converter                                *)
(***************************************************************************)
\* C10: with linear linearization, a raw byte whose sign-adjusted value is
\* not negative and whose value converts back without an error converts back
\* to itself
C10_RoundTrip ==
    ( /\ mode = "convert"
      /\ pc = "done"
      /\ raw # None
      /\ result.analog.linearization % 128 = L_LINEAR
      /\ SignAdjust(result.analog.analog_data_format, raw) >= 0
      /\ back.kind = "raw" )
        => back.num = raw

\* C11: convert_sensor_value_to_raw never returns a value that is not an
\* unsigned byte: every returned raw is in 0..255
C11_ReturnedRawIsByte ==
    (mode = "convert" /\ pc = "done" /\ back.kind = "raw")
        => back.num \in 0..BYTE_MAX

(***************************************************************************)
(* Properties of get_sensor_reading                                        *)
(***************************************************************************)
\* C12: for every combination of present and absent states1 and states2 in a
\* successful response get_sensor_reading returns a tuple: states is
\* states1 | (states2 << 8) when both are present, states1 when only states1
\* is, states2 shifted into place when only states2 is, None when neither
\* is; reading is None exactly when update_in_progress is set
C12_StatesCombination ==
    (mode = "get_sensor_reading" /\ pc = "done"
        /\ rsp.completion_code = CC_OK)
        => /\ result.kind = "reading"
           /\ result.states =
                CASE rsp.states1 # None /\ rsp.states2 # None ->
                         rsp.states1 + 256 * rsp.states2
                  [] rsp.states1 # None /\ rsp.states2 = None -> rsp.states1
                  [] rsp.states1 = None /\ rsp.states2 # None ->
                         256 * rsp.states2
                  [] OTHER -> None
           /\ (result.reading = None) <=> (rsp.update_in_progress = 1)
           /\ rsp.update_in_progress = 0
                => result.reading = rsp.sensor_reading

====
